---- MODULE Spec2Model ----
(***************************************************************************)
(* Natural-language query engine of the Healthcare Cost Navigator backend. *)
(*                                                                         *)
(* An SQL text is a sequence of tokens [k, v]: k is the lexical kind and v *)
(* the token's text.  Every substring test of the Python code is modelled  *)
(* as the matching test on tokens.                                         *)
(***************************************************************************)
EXTENDS Integers, Sequences, FiniteSets, TLC

(***************************************************************************)
(* Optional values: None is <<>>, a present value x is <<x>>.              *)
(***************************************************************************)
None == <<>>
Some(x) == <<x>>
IsNone(o) == o = <<>>
Get(o) == o[1]

(***************************************************************************)
(* Tokens                                                                  *)
(***************************************************************************)
Tok(k, v) == [k |-> k, v |-> v]
KW(v) == Tok("kw", v)          \* keyword, as written
ID(v) == Tok("id", v)          \* identifier / column / table
OP(v) == Tok("op", v)          \* operator
STR(v) == Tok("str", v)        \* quoted string literal with text v
NUM(v) == Tok("num", v)        \* bare literal v
PH(v) == Tok("ph", v)          \* placeholder $v
QPH(v) == Tok("qph", v)        \* placeholder $v inside quotes
TXT(v) == Tok("txt", v)        \* prose that is no SQL
CMT(v) == Tok("cmt", v)        \* an SQL comment running to the end of its line
PAT(v) == Tok("pat", v)        \* the quoted pattern %v% of an ILIKE or LIKE
SEMI == Tok("semi", ";")
NL == Tok("nl", "\n")          \* a line break with the indentation after it
FENCE == Tok("fence", "md")    \* markdown code fence around the answer

\* str.lower() on the text of a token
LowerText(v) ==
    CASE v = "SELECT" -> "select"
      [] v = "FROM" -> "from"
      [] v = "JOIN" -> "join"
      [] v = "WHERE" -> "where"
      [] v = "AND" -> "and"
      [] v = "OR" -> "or"
      [] v = "IN" -> "in"
      [] v = "ILIKE" -> "ilike"
      [] v = "LIKE" -> "like"
      [] v = "LIMIT" -> "limit"
      [] v = "ORDER BY" -> "order by"
      [] v = "ASC" -> "asc"
      [] v = "DESC" -> "desc"
      [] v = "DROP" -> "drop"
      [] v = "TABLE" -> "table"
      [] v = "DELETE" -> "delete"
      [] OTHER -> v

LowerTok(t) == [t EXCEPT !.v = LowerText(t.v)]
LowerSql(sql) == [i \in 1..Len(sql) |-> LowerTok(sql[i])]

\* index of the first semicolon of the text, 0 when there is none
FirstSemi(sql) ==
    IF \E i \in 1..Len(sql) : sql[i] = SEMI
    THEN CHOOSE i \in 1..Len(sql) : sql[i] = SEMI /\ \A j \in 1..(i-1) : sql[j] # SEMI
    ELSE 0

\* "pat in text" for token sequences
Contains(sql, pat) ==
    \E i \in 0..(Len(sql) - Len(pat)) : \A j \in 1..Len(pat) : sql[i + j] = pat[j]

(***************************************************************************)
(* EnhancedAIService._clean_generated_sql                                  *)
(***************************************************************************)
NotFence(t) == t # FENCE

\* a cleaner that strips the fences and keeps every statement
CleanWithoutCut(raw) == SelectSeq(raw, NotFence)

CleanGeneratedSql(raw) ==
    LET unfenced == SelectSeq(raw, NotFence)
        cut == FirstSemi(unfenced)
    IN IF cut = 0 THEN unfenced ELSE SubSeq(unfenced, 1, cut - 1)

(***************************************************************************)
(* SQLNormalizer.validate_sql_safety                                       *)
(***************************************************************************)
\* sqlglot.parse_one: the expression class of the first statement; "error"
\* when the text is empty or any part of it does not parse.
ParseOne(sql) ==
    IF sql = <<>> \/ \E i \in 1..Len(sql) : sql[i].k = "txt" THEN "error"
    ELSE IF LowerTok(sql[1]) = KW("select") THEN "Select"
    ELSE IF sql[1].k = "kw" THEN "Other"
    ELSE "error"

forbidden_keywords ==
    {"insert", "update", "delete", "drop", "truncate", "alter",
     "create", "grant", "revoke", "copy", "execute"}

\* sql.rstrip of the semicolon
RECURSIVE RStripSemi(_)
RStripSemi(sql) ==
    IF sql # <<>> /\ sql[Len(sql)] = SEMI
    THEN RStripSemi(SubSeq(sql, 1, Len(sql) - 1))
    ELSE sql

ValidateSqlSafety(sql) ==
    /\ ParseOne(sql) = "Select"
    /\ ~ \E i \in 1..Len(sql) :
           sql[i].k \in {"kw", "id"} /\ LowerText(sql[i].v) \in forbidden_keywords
    /\ FirstSemi(RStripSemi(sql)) = 0

(***************************************************************************)
(* StructuredQueryParser.parse_query                                       *)
(*                                                                         *)
(* An LLM answer is None (the call failed, no function call came back, or  *)
(* the arguments are no JSON) or the arguments object.  Texts are kept as  *)
(* strings, the limit as an integer, min_rating by its decimal text.       *)
(***************************************************************************)
QueryTypes == {"cheapest_provider", "highest_rated", "cost_comparison", "volume_analysis"}

Args(qt, proc, drg, st, city, zip, rating, lim) ==
    [query_type |-> qt, procedure |-> proc, drg_code |-> drg, state |-> st,
     city |-> city, zip_code |-> zip, min_rating |-> rating, limit |-> lim]

\* the answers of the function-calling LLM that the model draws from
LlmAnswers ==
    { None,
      Some(Args("cheapest_provider", None, Some("470"), Some("NY"), None, None, None, Some(5))),
      Some(Args("cheapest_provider", Some("knee replacement"), None, Some("texas"), None, None, None, Some(0))),
      Some(Args("volume_analysis", None, Some("470"), None, None, None, None, Some(5))),
      Some(Args("cheapest_provider", None, Some("470"), Some("NY"), None, None, None, Some(5000))),
      Some(Args("tell_a_joke", None, None, None, None, None, None, None)) }

\* the answers behind the requests that reach the binder
BinderAnswers ==
    { None,
      Some(Args("cheapest_provider", None, Some("470"), Some("NY"), None, None, None, Some(5))),
      Some(Args("cheapest_provider", None, Some("470"), Some("NY"), None, None, None, Some(5000))),
      Some(Args("highest_rated", None, None, Some("N\\Y"), None, None, Some("4.5"), Some(5))),
      Some(Args("cheapest_provider", Some("hip"), None, None, None, Some("10001"), None, Some(5))),
      Some(Args("highest_rated", None, None, None, Some("x'; DROP TABLE providers; --"), None, None, Some(5))) }

\* _normalize_state
state_mapping(s) ==
    CASE s = "new york" -> Some("NY")
      [] s = "california" -> Some("CA")
      [] s = "florida" -> Some("FL")
      [] s = "texas" -> Some("TX")
      [] s = "illinois" -> Some("IL")
      [] OTHER -> None

TwoLetter == {"NY", "TX", "CA", "FL", "IL", "ny"}

UpperText(s) == IF s = "ny" THEN "NY" ELSE s

NormalizeState(s) ==
    IF ~IsNone(state_mapping(LowerText(s))) THEN Get(state_mapping(LowerText(s)))
    ELSE IF s \in TwoLetter THEN UpperText(s)
    ELSE s

\* Python truthiness of an optional text and of an optional integer
Truthy(o) == ~IsNone(o) /\ Get(o) # ""
TruthyInt(o) == ~IsNone(o) /\ Get(o) # 0

DefaultLimit == 10

\* StructuredQuery(query_type=QueryType.CHEAPEST_PROVIDER): every other field None
DefaultStructuredQuery ==
    Args("cheapest_provider", None, None, None, None, None, None, None)

\* a parser that builds the StructuredQuery from whatever query_type it is given
ParseQueryAnyType(answer) ==
    IF IsNone(answer) THEN DefaultStructuredQuery
    ELSE [Get(answer) EXCEPT
            !.state = IF Truthy(Get(answer).state)
                      THEN Some(NormalizeState(Get(Get(answer).state))) ELSE Get(answer).state,
            !.limit = IF TruthyInt(Get(answer).limit) THEN Get(answer).limit
                      ELSE Some(DefaultLimit)]

ParseQuery(answer) ==
    IF IsNone(answer) THEN DefaultStructuredQuery
    ELSE LET params == Get(answer) IN
         IF params.query_type \notin QueryTypes THEN DefaultStructuredQuery
         ELSE [params EXCEPT
                 !.state = IF Truthy(params.state)
                           THEN Some(NormalizeState(Get(params.state))) ELSE params.state,
                 !.limit = IF TruthyInt(params.limit) THEN params.limit ELSE Some(DefaultLimit)]

\* the StructuredQuery of a request that reaches the binder
Intents == { ParseQuery(a) : a \in BinderAnswers }

\* str() of the integers the model uses
IntText(n) ==
    CASE n = 1 -> "1" [] n = 2 -> "2" [] n = 3 -> "3" [] n = 4 -> "4" [] n = 5 -> "5"
      [] n = 6 -> "6" [] n = 10 -> "10" [] n = 100 -> "100" [] n = 5000 -> "5000"
      [] OTHER -> "int"

(***************************************************************************)
(* EnhancedAIService._generate_structured_sql: the hint SQL for the search *)
(***************************************************************************)
WhereOf(conds) == IF conds = <<>> THEN <<>> ELSE <<KW("WHERE")>> \o conds

ProcedureCond(p) ==
    IF Truthy(p.procedure)
    THEN <<ID("d.drg_description"), KW("ILIKE"), STR(Get(p.procedure))>> ELSE <<>>

StateCond(p, col) ==
    IF Truthy(p.state) THEN <<ID(col), OP("="), STR(Get(p.state))>> ELSE <<>>

RatingCond(p) ==
    IF Truthy(p.min_rating)
    THEN <<ID("pr.overall_rating"), OP(">="), NUM(Get(p.min_rating))>> ELSE <<>>

LimitOf(p) == <<KW("LIMIT"), NUM(IntText(IF TruthyInt(p.limit) THEN Get(p.limit) ELSE 10))>>

GenerateStructuredSql(p) ==
    IF p.query_type = "cheapest_provider"
    THEN Some(<<KW("SELECT"), ID("d.drg_description"), KW("FROM"), ID("drg_procedures"),
                KW("JOIN"), ID("provider_procedures")>>
              \o WhereOf(ProcedureCond(p) \o StateCond(p, "pp.provider_state"))
              \o <<KW("ORDER BY"), ID("pp.average_covered_charges")>> \o LimitOf(p))
    ELSE IF p.query_type = "cost_comparison"
    THEN Some(<<KW("SELECT"), ID("d.drg_code"), KW("FROM"), ID("drg_procedures"),
                KW("JOIN"), ID("provider_procedures")>>
              \o WhereOf(ProcedureCond(p) \o StateCond(p, "pp.provider_state"))
              \o <<KW("ORDER BY"), ID("avg_cost"), KW("DESC")>> \o LimitOf(p))
    ELSE IF p.query_type = "highest_rated"
    THEN Some(<<KW("SELECT"), ID("p.provider_name"), KW("FROM"), ID("providers"),
                KW("JOIN"), ID("provider_ratings")>>
              \o WhereOf(ProcedureCond(p) \o StateCond(p, "p.provider_state") \o RatingCond(p))
              \o <<KW("ORDER BY"), ID("pr.overall_rating"), KW("DESC")>> \o LimitOf(p))
    \* any other type: StructuredQuery(query_type=..., **structured_params.__dict__)
    \* passes query_type twice, the TypeError is caught and None is returned
    ELSE None

(***************************************************************************)
(* The call of normalize_and_search in _try_structured_template_matching   *)
(***************************************************************************)
\* the parameters TemplateService.normalize_and_search declares
NormalizeAndSearchParams == {"session", "sql_query", "confidence_threshold"}

\* the keyword arguments the template path passes
TemplateSearchKeywords == {"session", "sql_query", "user_intent", "confidence_threshold"}

\* Python binds a call only if every keyword names a parameter; else TypeError
CallRaisesTypeError(keywords, params) == ~(keywords \subseteq params)

(***************************************************************************)
(* VectorSearchEngine.find_best_template_match                             *)
(*                                                                         *)
(* top: None when no catalog row has cosine similarity >= 0.6, else the    *)
(* nearest row with its similarity and 1 - edit_distance/max_length, both  *)
(* in hundredths.                                                          *)
(***************************************************************************)
ConfidenceThreshold == 70

\* confidence = similarity * 0.7 + edit_distance_ratio * 0.3, in thousandths
Confidence(top) == top.similarity_score * 7 + top.edit_ratio * 3

FindBestTemplateMatch(top) ==
    IF IsNone(top) THEN None
    ELSE IF Confidence(Get(top)) >= ConfidenceThreshold * 10 THEN Some(Get(top).template)
    ELSE None

(***************************************************************************)
(* What the LLM can answer to the RAG prompt (message.content), and what   *)
(* the database can do with a statement.                                   *)
(***************************************************************************)
SelectFrom(table) == <<KW("SELECT"), OP("*"), KW("FROM"), ID(table)>>
Limit5 == <<KW("LIMIT"), NUM("5")>>

\* a statement with no LIMIT clause whose pattern holds the letters limit
LimitedByName ==
    <<KW("SELECT"), ID("provider_name"), KW("FROM"), ID("providers"),
      KW("WHERE"), ID("provider_name"), KW("ILIKE"), STR("%limited%")>>

\* a statement that asks for more rows than max_result_limit
Limit5000 == SelectFrom("provider_procedures") \o <<KW("LIMIT"), NUM("5000")>>

\* a statement that copies a placeholder of the examples of the prompt: the
\* server rejects it every time, there is no parameter $1
UnboundPlaceholder ==
    SelectFrom("providers") \o <<KW("WHERE"), ID("provider_state"), OP("="), PH("1")>> \o Limit5

RawOutputs ==
    { <<FENCE>> \o SelectFrom("provider_ratings") \o Limit5 \o <<SEMI, FENCE>>,
      SelectFrom("pg_user"),
      SelectFrom("providers") \o Limit5 \o <<SEMI, KW("DROP"), KW("TABLE"), ID("providers")>>,
      <<KW("DELETE"), KW("FROM"), ID("providers")>>,
      LimitedByName,
      Limit5000,
      UnboundPlaceholder,
      <<>> }

\* the chat completion: None when the call raises
LlmCompletions == {None} \cup { Some(r) : r \in RawOutputs }

allowed_tables ==
    {"providers", "drg_procedures", "provider_procedures", "provider_ratings",
     "template_catalog", "csv_column_mappings"}

\* the tables a statement reads: the names after FROM and JOIN
TablesOf(sql) ==
    { sql[i + 1].v : i \in { j \in 1..(Len(sql) - 1) :
                               LowerText(sql[j].v) \in {"from", "join"} /\ sql[j].k = "kw" } }

HasPlaceholder(sql) == \E i \in 1..Len(sql) : sql[i].k \in {"ph", "qph"}

\* a $n outside quotes is a parameter of the statement; inside quotes it is
\* the text of a string
HasParameter(sql) == \E i \in 1..Len(sql) : sql[i].k = "ph"

\* the server accepts one statement with no unbound parameter and nothing
\* after a semicolon; any statement can also fail for a transient reason
DbOutcomes(sql) ==
    IF HasParameter(sql) \/ FirstSemi(RStripSemi(sql)) # 0 \/ ParseOne(sql) = "error"
    THEN {"error"}
    ELSE {"rows", "empty", "error"}

RowsOf(outcome) == IF outcome = "rows" THEN 2 ELSE 0

\* session.rollback() itself can raise (the executor guards it for that reason)
RollbackOutcomes == {"ok", "raise"}

\* the token texts of the model that hold the letters limit
TextsWithLimit == {"limit", "%limited%"}

\* "limit" in sql.lower()
HasLimitText(sql) == \E i \in 1..Len(sql) : LowerText(sql[i].v) \in TextsWithLimit

\* Add LIMIT if not present
AddLimit(sql, max_results) ==
    IF ~HasLimitText(sql) THEN sql \o <<KW("LIMIT"), NUM(IntText(max_results))>> ELSE sql

MaxAttempts == 3
RagMaxResults == 100

\* SQLSafetyValidator.max_result_limit, the MAX_ROWS of the configuration
MaxRows == 1000

(***************************************************************************)
(* SQLNormalizer.normalize_sql                                             *)
(***************************************************************************)
\* the text of token $v
DollarText(v) ==
    CASE v = "1" -> "$1" [] v = "2" -> "$2" [] v = "3" -> "$3" [] v = "4" -> "$4"
      [] OTHER -> "$n"

\* string_pattern.sub(replace_string, ...): every quoted run, a quoted
\* placeholder included, becomes the next quoted placeholder
RECURSIVE ReplaceStrings(_, _, _, _, _)
ReplaceStrings(sql, i, counter, out, constants) ==
    IF i > Len(sql) THEN [sql |-> out, constants |-> constants, counter |-> counter]
    ELSE IF sql[i].k = "str"
    THEN ReplaceStrings(sql, i + 1, counter + 1, Append(out, QPH(IntText(counter))),
                        Append(constants, sql[i].v))
    ELSE IF sql[i].k = "qph"
    THEN ReplaceStrings(sql, i + 1, counter + 1, Append(out, QPH(IntText(counter))),
                        Append(constants, DollarText(sql[i].v)))
    ELSE ReplaceStrings(sql, i + 1, counter, Append(out, sql[i]), constants)

\* number_pattern.sub(replace_number, ...): the numbers not preceded by $
RECURSIVE ReplaceNumbers(_, _, _, _, _)
ReplaceNumbers(sql, i, counter, out, constants) ==
    IF i > Len(sql) THEN [sql |-> out, constants |-> constants, counter |-> counter]
    ELSE IF sql[i].k = "num"
    THEN ReplaceNumbers(sql, i + 1, counter + 1, Append(out, PH(IntText(counter))),
                        Append(constants, sql[i].v))
    ELSE ReplaceNumbers(sql, i + 1, counter, Append(out, sql[i]), constants)

\* one pass that numbers strings and numbers alike, in the order they stand
ExtractLeftToRight(sql) ==
    LET lits == { i \in 1..Len(sql) : sql[i].k \in {"str", "qph", "num"} }
        rank(i) == Cardinality({ j \in lits : j <= i })
        value(i) == IF sql[i].k = "qph" THEN DollarText(sql[i].v) ELSE sql[i].v
    IN  [sql |-> [i \in 1..Len(sql) |->
                    IF sql[i].k \in {"str", "qph"} THEN QPH(IntText(rank(i)))
                    ELSE IF sql[i].k = "num" THEN PH(IntText(rank(i)))
                    ELSE sql[i]],
         constants |-> [k \in 1..Cardinality(lits) |->
                          value(CHOOSE i \in lits : rank(i) = k)],
         counter |-> Cardinality(lits) + 1]

ExtractAndReplaceConstants(sql) ==
    LET strings == ReplaceStrings(sql, 1, 1, <<>>, <<>>)
    IN ReplaceNumbers(strings.sql, 1, strings.counter, <<>>, strings.constants)

\* the rule for ASC: order by x asc becomes ORDER BY x, in upper case
RECURSIVE NormalizeAsc(_)
NormalizeAsc(sql) ==
    IF Len(sql) < 3 THEN sql
    ELSE IF sql[1] = KW("order by") /\ sql[3] = KW("asc")
    THEN <<KW("ORDER BY"), sql[2]>> \o NormalizeAsc(SubSeq(sql, 4, Len(sql)))
    ELSE <<sql[1]>> \o NormalizeAsc(Tail(sql))

ApplyAdditionalNormalization(sql) == NormalizeAsc(LowerSql(sql))

NotNewline(t) == t # NL

\* parsed.sql(pretty=False): the first statement, printed on one line without
\* its semicolon
Regenerate(sql) ==
    LET line == SelectSeq(sql, NotNewline)
    IN  IF FirstSemi(line) = 0 THEN line ELSE SubSeq(line, 1, FirstSemi(line) - 1)

\* the last step collapses every run of whitespace to one space
BasicNormalize(sql) ==
    LET r == ExtractAndReplaceConstants(LowerSql(sql))
    IN [sql |-> SelectSeq(r.sql, NotNewline), constants |-> r.constants]

NormalizeSql(sql) ==
    IF ParseOne(sql) = "error" THEN BasicNormalize(sql)
    ELSE LET r == ExtractAndReplaceConstants(Regenerate(sql))
         IN [sql |-> ApplyAdditionalNormalization(r.sql), constants |-> r.constants]

(***************************************************************************)
(* TemplateService.learn_from_successful_query                             *)
(*                                                                         *)
(* The catalog is the sequence of learned rows.  Two texts are at cosine   *)
(* similarity >= 0.95 when their canonical SQL is the same text.           *)
(***************************************************************************)
DuplicateThreshold == 95

Similarity(a, b) == IF a = b THEN 100 ELSE 60

\* search_similar_templates(limit=1, similarity_threshold=0.95)
ExistingMatches(cat, normalized_sql) ==
    { i \in 1..Len(cat) : Similarity(cat[i].canonical_sql, normalized_sql) >= DuplicateThreshold }

\* what the embedder and the database do during one call of learning:
\* search and insert succeed or fail, a rollback succeeds or raises.  Where
\* no rollback happens, or no insert after a rollback that raised, the
\* component is held at "ok"
LearnEnvs ==
    { env \in [search : {"ok", "fail"}, insert : {"ok", "fail"}, rollback : RollbackOutcomes] :
        /\ (env.search = "ok" /\ env.insert = "ok") => env.rollback = "ok"
        /\ (env.search = "fail" /\ env.rollback = "raise") => env.insert = "ok" }

\* the catalog after the call, and whether the call raised
LearnFromSuccessfulQuery(cat, generated_sql, env) ==
    LET normalized_sql == NormalizeSql(generated_sql).sql
        \* a failed search rolls back and returns no match
        existing_matches == IF env.search = "ok" THEN ExistingMatches(cat, normalized_sql)
                            ELSE {}
        row == [canonical_sql |-> normalized_sql, raw_sql |-> generated_sql]
    IN IF env.search = "fail" /\ env.rollback = "raise"
       THEN [catalog |-> cat, raised |-> TRUE, added |-> FALSE]
       ELSE IF existing_matches # {}
       THEN [catalog |-> cat, raised |-> FALSE, added |-> FALSE]
       ELSE IF env.insert = "ok"
       THEN [catalog |-> Append(cat, row), raised |-> FALSE, added |-> TRUE]
       \* add_template_to_catalog rolls back and re-raises; the handler of
       \* learn_from_successful_query rolls back again and returns False
       ELSE [catalog |-> cat, raised |-> env.rollback = "raise", added |-> FALSE]

(***************************************************************************)
(* template_catalog rows.  The seed rows are those of                      *)
(* TemplateSeeder.get_initial_templates, raw_sql stripped, with the select *)
(* list and the join conditions left out.                                  *)
(***************************************************************************)
Template(id, raw_sql, comment) == [template_id |-> id, raw_sql |-> raw_sql, comment |-> comment]

FromProviders ==
    <<KW("SELECT"), ID("p.provider_name"), KW("FROM"), ID("providers"), ID("p"),
      KW("JOIN"), ID("provider_procedures"), ID("pp"), KW("JOIN"), ID("drg_procedures"), ID("d")>>

FromRatings ==
    <<KW("SELECT"), ID("p.provider_name"), ID("p.provider_state"), KW("FROM"), ID("providers"),
      ID("p"), KW("JOIN"), ID("provider_ratings"), ID("pr")>>

SeedCheapestDrgState ==
    Template(2, FromProviders \o
        <<KW("WHERE"), ID("d.drg_code"), OP("="), PH("1"), KW("AND"), ID("p.provider_state"),
          OP("="), PH("2"), KW("ORDER BY"), ID("pp.average_covered_charges"), KW("ASC"),
          KW("LIMIT"), PH("3"), SEMI>>,
        "Cheapest providers for a DRG in a state")

SeedCheapestNationwide ==
    Template(3, <<KW("SELECT"), ID("d.drg_description")>> \o Tail(Tail(FromProviders)) \o
        <<KW("WHERE"), ID("d.drg_description"), KW("ILIKE"), PH("1"),
          KW("ORDER BY"), ID("pp.average_covered_charges"), KW("ASC"), KW("LIMIT"), PH("2"), SEMI>>,
        "Cheapest providers nationwide for any procedure by description")

SeedExpensiveInState ==
    Template(6, <<KW("SELECT"), ID("d.drg_code"), KW("FROM"), ID("drg_procedures"), ID("d"),
          KW("JOIN"), ID("providers"), ID("p"),
          KW("WHERE"), ID("p.provider_state"), OP("="), PH("1"),
          KW("ORDER BY"), ID("avg_cost"), KW("DESC"), KW("LIMIT"), PH("2"), SEMI>>,
        "Most expensive procedures in a state by average cost")

SeedRatingInState ==
    Template(9, FromRatings \o
        <<KW("WHERE"), ID("pr.overall_rating"), OP(">="), PH("1"), KW("AND"),
          ID("p.provider_state"), OP("="), PH("2"),
          KW("ORDER BY"), ID("pr.overall_rating"), KW("DESC"), KW("LIMIT"), PH("3"), SEMI>>,
        "Providers above rating threshold in a state")

SeedRatedInCity ==
    Template(10, FromRatings \o
        <<KW("WHERE"), ID("p.provider_city"), KW("ILIKE"), PH("1"),
          KW("ORDER BY"), ID("pr.overall_rating"), KW("DESC"), KW("LIMIT"), PH("2"), SEMI>>,
        "Highest-rated providers in a city")

SeedCompareStates ==
    Template(14, <<KW("SELECT"), ID("p.provider_state")>> \o Tail(Tail(FromProviders)) \o
        <<KW("WHERE"), ID("d.drg_description"), KW("ILIKE"), PH("1"), KW("AND"),
          ID("p.provider_state"), KW("IN"), OP("("), PH("2"), OP(","), PH("3"), OP(")"),
          KW("ORDER BY"), ID("avg_cost"), KW("ASC"), SEMI>>,
        "Compare costs for a procedure between two states")

SeedNearZip ==
    Template(19, <<KW("SELECT"), ID("p.provider_name"), KW("FROM"), ID("providers"), ID("p"),
          KW("WHERE"), ID("p.provider_zip_code"), KW("LIKE"), PH("1"), KW("LIMIT"), PH("2"), SEMI>>,
        "Providers near a ZIP-code prefix")

SeedStateStatistics ==
    Template(24, <<KW("SELECT"), ID("p.provider_state"), KW("FROM"), ID("providers"), ID("p"),
          KW("JOIN"), ID("provider_procedures"), ID("pp"),
          KW("ORDER BY"), ID("avg_cost"), KW("ASC"), KW("LIMIT"), PH("1"), SEMI>>,
        "State-level healthcare statistics ranked by cost")

\* a row a successful RAG query left behind: its raw_sql has no placeholder
LearnedRow ==
    Template(25, SelectFrom("providers") \o Limit5, "Auto-generated from query")

\* a hand-written row that uses one placeholder twice
RepeatedPlaceholderRow ==
    Template(26, <<KW("SELECT"), ID("p.provider_name"), KW("FROM"), ID("providers"), ID("p"),
          KW("JOIN"), ID("provider_procedures"), ID("pp"),
          KW("WHERE"), ID("p.provider_state"), OP("="), PH("1"), KW("AND"),
          ID("pp.provider_state"), OP("="), PH("1"), KW("LIMIT"), PH("2")>>,
        "Providers of a state, state given once")

Templates ==
    { SeedCheapestDrgState, SeedCheapestNationwide, SeedExpensiveInState, SeedRatingInState,
      SeedRatedInCity, SeedCompareStates, SeedNearZip, SeedStateStatistics,
      LearnedRow, RepeatedPlaceholderRow }

\* what the similarity search can return as nearest row for a hint SQL
StoreTops ==
    { None,
      Some([template |-> SeedCheapestDrgState, similarity_score |-> 95, edit_ratio |-> 90]),
      Some([template |-> SeedExpensiveInState, similarity_score |-> 65, edit_ratio |-> 40]) }

(***************************************************************************)
(* TemplateSeeder.normalize_sql and the rows seed_templates inserts         *)
(***************************************************************************)
ClauseKeywords == {"from", "join", "where", "order by", "limit"}

\* parsed.sql(pretty=True): the first statement without its semicolon, every
\* clause on a line of its own
RECURSIVE PrettyPrint(_)
PrettyPrint(sql) ==
    IF sql = <<>> \/ Head(sql) = SEMI THEN <<>>
    ELSE IF Head(sql) = NL THEN PrettyPrint(Tail(sql))
    ELSE IF Head(sql).k = "kw" /\ LowerText(Head(sql).v) \in ClauseKeywords
    THEN <<NL, Head(sql)>> \o PrettyPrint(Tail(sql))
    ELSE <<Head(sql)>> \o PrettyPrint(Tail(sql))

\* re.sub(r"\b\d+\.?\d*\b", repl_number, ...): every number, the digits of a
\* quoted placeholder the string pass has just written included
RECURSIVE SeederReplaceNumbers(_, _, _)
SeederReplaceNumbers(sql, i, counter) ==
    IF i > Len(sql) THEN <<>>
    ELSE IF sql[i].k = "num"
    THEN <<PH(IntText(counter))>> \o SeederReplaceNumbers(sql, i + 1, counter + 1)
    ELSE IF sql[i].k = "qph"
    THEN <<STR("$$n")>> \o SeederReplaceNumbers(sql, i + 1, counter + 1)
    ELSE <<sql[i]>> \o SeederReplaceNumbers(sql, i + 1, counter)

SeederNormalizeSql(sql) ==
    \* the naive normalisation after a parse error: one line, lower case
    IF ParseOne(sql) = "error" THEN LowerSql(SelectSeq(sql, NotNewline))
    ELSE LET normalized == PrettyPrint(sql)
         IN  \* a template with parameters is only formatted
             IF HasPlaceholder(normalized) THEN LowerSql(normalized)
             ELSE LET strings == ReplaceStrings(normalized, 1, 1, <<>>, <<>>)
                  IN  LowerSql(SeederReplaceNumbers(strings.sql, 1, strings.counter))

\* the TemplateCatalog row of seed_templates for a template of the list
SeedRow(tpl) ==
    [template_id |-> tpl.template_id, canonical_sql |-> SeederNormalizeSql(tpl.raw_sql),
     raw_sql |-> tpl.raw_sql, comment |-> tpl.comment]

\* template_catalog after seeding
SeedRows ==
    <<SeedRow(SeedCheapestDrgState), SeedRow(SeedCheapestNationwide),
      SeedRow(SeedExpensiveInState), SeedRow(SeedRatingInState), SeedRow(SeedRatedInCity),
      SeedRow(SeedCompareStates), SeedRow(SeedNearZip), SeedRow(SeedStateStatistics)>>

(***************************************************************************)
(* EnhancedAIService._extract_template_constants, the binder.              *)
(*                                                                         *)
(* env.drg is what the DRG resolver finds for a non-empty phrase and       *)
(* env.description is the outcome of the description lookup.  Templates    *)
(* of the model have fewer than ten placeholders.                          *)
(***************************************************************************)
StateColumns == {"provider_state", "p.provider_state", "pp.provider_state"}
CityColumns == {"provider_city", "p.provider_city"}
ZipColumns == {"provider_zip_code", "p.provider_zip_code"}
RatingColumns == {"overall_rating", "pr.overall_rating"}

BinderEnvs == [drg : {None, Some("470")}, description : {"row", "norow", "error"}]

DrgDescription == "MAJOR HIP AND KNEE JOINT REPLACEMENT"

IsPlaceholder(t) == t.k \in {"ph", "qph"}

\* len(re.findall(r"\$\d+", tmpl))
PlaceholderCount(sql) == Cardinality({ i \in 1..Len(sql) : IsPlaceholder(sql[i]) })

\* f"${i}" in tmpl
HasParam(sql, n) == \E i \in 1..Len(sql) : IsPlaceholder(sql[i]) /\ sql[i].v = IntText(n)

\* f"<column> <op> ${n}" in tmpl, for a column name ending in one of cols
Context(tmpl, cols, op, n) ==
    \E c \in cols : Contains(tmpl, <<ID(c), op, PH(IntText(n))>>)

\* "<word>" in tmpl
Mentions(tmpl, texts) == \E i \in 1..Len(tmpl) : tmpl[i].v \in texts

OrEmpty(o) == IF Truthy(o) THEN Get(o) ELSE ""

DrgCodeFromPhrase(phrase, env) == IF phrase = "" THEN None ELSE env.drg

\* the constant for placeholder n, or None where the code returns []
BindParam(structured_params, tmpl, n, env) ==
    IF Contains(tmpl, <<ID("d.drg_description"), KW("ilike"), PH(IntText(n))>>)
    THEN LET procedure_term == OrEmpty(structured_params.procedure)
             drg_code == DrgCodeFromPhrase(procedure_term, env)
         IN  IF Truthy(drg_code) /\ env.description = "row"
             THEN Some(DrgDescription) ELSE Some(procedure_term)
    ELSE IF Contains(tmpl, <<ID("d.drg_code"), OP("="), PH(IntText(n))>>)
    THEN LET code == IF Truthy(structured_params.drg_code) THEN structured_params.drg_code
                     ELSE DrgCodeFromPhrase(OrEmpty(structured_params.procedure), env)
         IN  IF Truthy(code) THEN code ELSE None
    ELSE IF Context(tmpl, StateColumns, OP("="), n)
    THEN LET state_value == OrEmpty(structured_params.state)
         IN  IF state_value = "" /\ Mentions(tmpl, {"in a state"}) THEN None
             ELSE Some(state_value)
    ELSE IF Context(tmpl, CityColumns, KW("ilike"), n)
    THEN Some(OrEmpty(structured_params.city))
    ELSE IF Context(tmpl, ZipColumns, KW("like"), n)
    THEN Some(OrEmpty(structured_params.zip_code))
    ELSE IF Contains(tmpl, <<KW("limit"), PH(IntText(n))>>)
    THEN Some(IntText(IF TruthyInt(structured_params.limit) THEN Get(structured_params.limit) ELSE 10))
    ELSE IF Context(tmpl, RatingColumns, OP(">="), n)
    THEN Some(IF Truthy(structured_params.min_rating) THEN Get(structured_params.min_rating) ELSE "1")
    ELSE IF n = 1 /\ Mentions(tmpl, {"drg_description", "d.drg_description"})
    THEN Some(OrEmpty(structured_params.procedure))
    ELSE IF n = 2 /\ HasLimitText(tmpl) /\ ~Mentions(tmpl, StateColumns)
    THEN Some(IntText(IF TruthyInt(structured_params.limit) THEN Get(structured_params.limit) ELSE 10))
    ELSE IF n = 2 /\ Mentions(tmpl, StateColumns)
    THEN Some(OrEmpty(structured_params.state))
    ELSE IF n = 3 /\ HasLimitText(tmpl)
    THEN Some(IntText(IF TruthyInt(structured_params.limit) THEN Get(structured_params.limit) ELSE 10))
    ELSE None

\* the loop over sorted(param_positions), from placeholder n on
RECURSIVE BindFrom(_, _, _, _, _, _)
BindFrom(structured_params, tmpl, n, param_count, constants, env) ==
    IF n > param_count THEN Some(constants)
    ELSE IF ~HasParam(tmpl, n)
    THEN BindFrom(structured_params, tmpl, n + 1, param_count, constants, env)
    ELSE LET c == BindParam(structured_params, tmpl, n, env)
         IN  IF IsNone(c) THEN None
             ELSE BindFrom(structured_params, tmpl, n + 1, param_count,
                           Append(constants, Get(c)), env)

\* a final test that lets every count through
CountMismatchIgnored(constants, param_count) == FALSE

\* the final len(constants) != param_count test
CountMismatch(constants, param_count) == Len(constants) # param_count

ExtractTemplateConstants(structured_params, template_sql, env) ==
    LET tmpl == LowerSql(template_sql)
        param_count == PlaceholderCount(tmpl)
        constants == BindFrom(structured_params, tmpl, 1, param_count, <<>>, env)
    IN  IF IsNone(constants) THEN <<>>
        ELSE IF CountMismatch(Get(constants), param_count) THEN <<>>
        ELSE Get(constants)

(***************************************************************************)
(* TemplateService._determine_data_type and map_parameters                 *)
(***************************************************************************)
BooleanTexts == {"true", "false", "t", "f"}
ShortDigitTexts == {"1", "2", "3", "4", "5", "6", "10", "100", "470", "5000"}
LongDigitTexts == {"10001"}
FloatTexts == {"4.5"}

DetermineDataType(value) ==
    IF LowerText(value) \in BooleanTexts THEN "boolean"
    ELSE IF value \in ShortDigitTexts THEN "string"
    ELSE IF value \in FloatTexts THEN "float"
    ELSE IF value \in LongDigitTexts THEN "integer"
    \* float() or int() raised ValueError
    ELSE "string"

\* a constant that, as a replacement template of re.sub, holds a bad escape
BadEscapeTexts == {"N\\Y"}

HostileText == "x'; DROP TABLE providers; --"

\* the tokens of the text f"'{constant}'"
QuoteTokens(constant) ==
    IF constant = HostileText
    THEN <<STR("x"), SEMI, KW("DROP"), KW("TABLE"), ID("providers"), SEMI, CMT("--'")>>
    ELSE <<STR(constant)>>

\* str.replace(f"{like} '{param_name}'", f"{like} '%{constant.strip('%')}%'")
ReplaceQuotedPattern(sql, like, i, constant) ==
    [j \in 1..Len(sql) |->
        IF j > 1 /\ sql[j] = QPH(IntText(i)) /\ sql[j - 1] = KW(like)
        THEN PAT(constant) ELSE sql[j]]

\* placeholder_re.sub(replacement, sql): the placeholder with its optional quotes
RECURSIVE SubPlaceholder(_, _, _)
SubPlaceholder(sql, i, replacement) ==
    IF sql = <<>> THEN <<>>
    ELSE IF IsPlaceholder(Head(sql)) /\ Head(sql).v = IntText(i)
    THEN replacement \o SubPlaceholder(Tail(sql), i, replacement)
    ELSE <<Head(sql)>> \o SubPlaceholder(Tail(sql), i, replacement)

\* the loop from constant i on; None stands for an exception raised in its body
RECURSIVE MapFrom(_, _, _)
MapFrom(parameterized_sql, user_constants, i) ==
    IF i > Len(user_constants) THEN Some(parameterized_sql)
    ELSE LET constant == user_constants[i]
             data_type == DetermineDataType(constant)
         IN  IF Contains(parameterized_sql, <<KW("ILIKE"), QPH(IntText(i))>>)
             THEN MapFrom(ReplaceQuotedPattern(parameterized_sql, "ILIKE", i, constant),
                          user_constants, i + 1)
             ELSE IF Contains(parameterized_sql, <<KW("LIKE"), QPH(IntText(i))>>)
             THEN MapFrom(ReplaceQuotedPattern(parameterized_sql, "LIKE", i, constant),
                          user_constants, i + 1)
             ELSE IF constant \in BadEscapeTexts THEN None
             ELSE MapFrom(SubPlaceholder(parameterized_sql, i,
                              IF data_type = "string" THEN QuoteTokens(constant)
                              ELSE <<NUM(constant)>>),
                          user_constants, i + 1)

\* the parameterized_sql of the returned pair
MapParameters(template_sql, user_constants) ==
    LET mapped == MapFrom(template_sql, user_constants, 1)
    \* except Exception: return template_sql, []
    IN  IF IsNone(mapped) THEN template_sql ELSE Get(mapped)

(***************************************************************************)
(* The request as a state machine.                                         *)
(*                                                                         *)
(* A run serves one request.  It starts at the ask endpoint, or, for the   *)
(* part of the template path that lies behind normalize_and_search, at the *)
(* point where that call has handed a matched row to the binder.           *)
(***************************************************************************)
VARIABLES
    entry,                  \* "ask" or "matched": where the run starts
    use_template_matching,  \* the flag of the request
    store_top,              \* the nearest row of the store for the hint SQL of the request
    pc,                     \* the position of the request in the pipeline
    visited,                \* the positions the request has been at
    structured_params,      \* the StructuredQuery of the request
    template_match,         \* the matched row
    template_constants,     \* what the binder returned
    template_result,        \* the QueryResult of _try_structured_template_matching
    rag_prompt,             \* the prompt _build_rag_prompt returned
    attempt,                \* the rounds of the RAG loop that have run
    prompt_builds,          \* calls of _build_rag_prompt
    gen_calls,              \* calls of _generate_sql_with_prompt
    exec_calls,             \* calls of _execute_sql_safely
    prompts,                \* the prompts sent to the generator
    unsafe_verdicts,        \* the candidates the validator rejected
    executed,               \* the latest text handed to session.execute
    catalog,                \* rows learning added to template_catalog
    result,                 \* the QueryResult of process_natural_language_query
    response,               \* the AskResponse
    schedule,               \* how two learning requests are run: one after the other or at once
    learners,               \* the calls of learn_from_successful_query of the two requests
    template_catalog,       \* the rows of table template_catalog the two requests share
    validated_sql,          \* the text handed to SQLSafetyValidator.validate_sql
    report,                 \* the SafetyReport it returned
    db_session,             \* the transaction of the AsyncSession of a request and its statements
    binder                  \* the position and the locals of the request that uses it

vars ==
    <<entry, use_template_matching, store_top, pc, visited, structured_params, template_match,
      template_constants, template_result, rag_prompt, attempt, prompt_builds, gen_calls,
      exec_calls, prompts, unsafe_verdicts, executed, catalog, result, response,
      schedule, learners, template_catalog, validated_sql, report, db_session, binder>>

storeVars == <<schedule, learners, template_catalog>>
validatorVars == <<validated_sql, report>>
sessionVars == <<db_session, binder>>

\* what no step of a request changes
requestVars == <<entry, use_template_matching, store_top, storeVars, validatorVars, sessionVars>>
templateVars == <<template_match, template_constants, template_result>>
ragVars == <<rag_prompt, attempt, prompt_builds, gen_calls, exec_calls, prompts, catalog>>
logVars == <<unsafe_verdicts, executed>>

\* QueryResult(success=False, message=...): every other field keeps its default None
Failure(message) ==
    [success |-> FALSE, message |-> message, sql_query |-> None, results |-> None,
     template_used |-> None]

\* one call of session.execute: the completion and the candidate it came from,
\* the verdict on the candidate, the text executed and what the database did
Execution(path, raw, candidate, sql, safe, outcome) ==
    [path |-> path, raw |-> raw, candidate |-> candidate, sql |-> sql, verdict |-> safe,
     outcome |-> outcome]

Rejected(path, candidate) == [path |-> path, candidate |-> candidate]

Goto(p) == pc' = p /\ visited' = visited \cup {p}

InitCommon ==
    /\ template_constants = <<>>
    /\ template_result = None
    /\ rag_prompt = None
    /\ attempt = 0
    /\ prompt_builds = 0
    /\ gen_calls = 0
    /\ exec_calls = 0
    /\ prompts = {}
    /\ unsafe_verdicts = {}
    /\ executed = None
    /\ catalog = <<>>
    /\ result = None
    /\ response = None

\* POST /ask has arrived
InitAsk ==
    /\ entry = "ask"
    /\ use_template_matching \in BOOLEAN
    /\ store_top \in StoreTops
    /\ pc = "start"
    /\ visited = {"start"}
    /\ structured_params = DefaultStructuredQuery
    /\ template_match = None
    /\ InitCommon

\* normalize_and_search has returned a row for the request
InitMatched ==
    /\ entry = "matched"
    /\ use_template_matching = TRUE
    /\ \E t \in Templates :
         /\ store_top = Some([template |-> t, similarity_score |-> 95, edit_ratio |-> 90])
         /\ template_match = Some(t)
    /\ pc = "binding"
    /\ visited = {"binding"}
    /\ structured_params \in Intents
    /\ InitCommon

\* no learning request is under way, no validator call
NoStore == schedule = "none" /\ learners = <<>> /\ template_catalog = <<>>
NoValidator == validated_sql = None /\ report = None
NoSession == db_session = None /\ binder = None

Init == (InitAsk \/ InitMatched) /\ NoStore /\ NoValidator /\ NoSession

(***************************************************************************)
(* process_natural_language_query, step 1: parse_query                     *)
(***************************************************************************)
ParseQueryStep ==
    /\ pc = "start"
    /\ \E answer \in LlmAnswers : structured_params' = ParseQuery(answer)
    /\ Goto(IF use_template_matching THEN "templating" ELSE "fallback")
    /\ UNCHANGED <<requestVars, templateVars, ragVars, logVars, result, response>>

\* the except clause of _try_structured_template_matching: the rollback is not
\* guarded, an exception of it reaches the except clause of
\* process_natural_language_query
TemplateExcept(rollback) ==
    IF rollback = "ok"
    THEN /\ template_result' = Some(Failure("Template matching error"))
         /\ result' = result
         /\ Goto("template_returned")
    ELSE /\ template_result' = template_result
         /\ result' = Some(Failure("Query processing failed"))
         /\ Goto("returned")

TemplateReturns(query_result) ==
    /\ template_result' = Some(query_result)
    /\ result' = result
    /\ Goto("template_returned")

(***************************************************************************)
(* _try_structured_template_matching up to the search for a template       *)
(***************************************************************************)
TryTemplateMatching ==
    /\ pc = "templating"
    /\ LET search_sql == GenerateStructuredSql(structured_params)
           best == FindBestTemplateMatch(store_top)
       IN  IF IsNone(search_sql)
           THEN /\ TemplateReturns(Failure("Failed to generate search SQL"))
                /\ UNCHANGED template_match
           \* the TypeError is caught; nothing has been sent on the session
           \* yet, so the rollback of the except clause has nothing to undo
           ELSE IF CallRaisesTypeError(TemplateSearchKeywords, NormalizeAndSearchParams)
           THEN /\ TemplateExcept("ok")
                /\ UNCHANGED template_match
           ELSE IF IsNone(best)
           THEN /\ TemplateReturns(Failure("No matching template found"))
                /\ UNCHANGED template_match
           ELSE /\ template_match' = best
                /\ Goto("binding")
                /\ UNCHANGED <<template_result, result>>
    /\ UNCHANGED <<requestVars, structured_params, template_constants, ragVars, logVars,
                   response>>

(***************************************************************************)
(* Binding: _extract_template_constants on the matched row                 *)
(***************************************************************************)
ExtractConstants ==
    /\ pc = "binding"
    /\ \E env \in BinderEnvs :
         template_constants' =
             ExtractTemplateConstants(structured_params, Get(template_match).raw_sql, env)
    /\ IF template_constants' = <<>>
       THEN TemplateReturns(Failure("Failed to extract template parameters"))
       ELSE /\ Goto("executing")
            /\ UNCHANGED <<template_result, result>>
    /\ UNCHANGED <<requestVars, structured_params, template_match, ragVars, logVars,
                   response>>

\* a test that lets every candidate through
MayExecuteAlways(safe) == TRUE

\* the test that lets a candidate go on to session.execute
MayExecute(safe) == safe

\* the QueryResult of a template execution that returned rows: the second
\* element of the returned triple, a message, is stored as sql_query
TemplateSuccess(template, rows) ==
    [success |-> TRUE, message |-> "Template match found",
     sql_query |-> Some(<<TXT("Query executed successfully")>>),
     results |-> Some(rows), template_used |-> Some(template.template_id)]

DefaultMaxResults == 100

(***************************************************************************)
(* Executing: validate_and_execute_template and the test on its result     *)
(***************************************************************************)
ValidateAndExecuteTemplate ==
    /\ pc = "executing"
    /\ LET template == Get(template_match)
           executable_sql == MapParameters(template.raw_sql, template_constants)
           safe == ValidateSqlSafety(executable_sql)
           max_results == IF TruthyInt(structured_params.limit)
                          THEN Get(structured_params.limit) ELSE DefaultMaxResults
           final_sql == AddLimit(executable_sql, max_results)
       IN  /\ unsafe_verdicts' =
                 IF safe THEN unsafe_verdicts
                 ELSE unsafe_verdicts \cup {Rejected("template", executable_sql)}
           /\ IF ~MayExecute(safe)
              THEN /\ TemplateReturns(Failure("Template execution failed"))
                   /\ UNCHANGED executed
              ELSE \E outcome \in DbOutcomes(final_sql) :
                   \E rollback1 \in RollbackOutcomes, rollback2 \in RollbackOutcomes :
                     /\ executed' = Some(Execution("template", None, executable_sql, final_sql,
                                                  safe, outcome))
                     /\ IF outcome = "rows"
                        THEN TemplateReturns(TemplateSuccess(template, RowsOf(outcome)))
                        ELSE IF outcome = "empty" \/ rollback1 = "ok"
                        THEN TemplateReturns(Failure("Template execution failed"))
                        ELSE TemplateExcept(rollback2)
    /\ UNCHANGED <<requestVars, structured_params, template_match, template_constants, ragVars,
                   response>>

\* process_natural_language_query, step 2: if template_result.success: return
TemplateReturn ==
    /\ pc = "template_returned"
    /\ IF Get(template_result).success
       THEN result' = template_result /\ Goto("returned")
       ELSE result' = result /\ Goto("fallback")
    /\ UNCHANGED <<requestVars, structured_params, templateVars, ragVars, logVars, response>>

(***************************************************************************)
(* _generate_with_structured_rag                                           *)
(***************************************************************************)
SuggestionOutcomes == {"rows", "error"}

\* _build_rag_prompt(user_query, template_suggestions, structured_params); the
\* examples the suggestions add to the text are left out
BuildRagPrompt(params) == [structured_params |-> params]

\* get_template_suggestions and _build_rag_prompt.  A failed suggestion search
\* rolls back unguarded and returns no suggestion; an exception of the rollback
\* reaches the outer except clause
RagPrepare ==
    /\ pc = "fallback"
    /\ \E suggestions \in SuggestionOutcomes, rollback \in RollbackOutcomes :
         IF suggestions = "error" /\ rollback = "raise"
         THEN /\ result' = Some(Failure("Structured RAG generation failed"))
              /\ Goto("returned")
              /\ UNCHANGED <<rag_prompt, prompt_builds>>
         ELSE /\ rag_prompt' = Some(BuildRagPrompt(structured_params))
              /\ prompt_builds' = prompt_builds + 1
              /\ Goto("generate")
              /\ UNCHANGED result
    /\ UNCHANGED <<requestVars, structured_params, templateVars, attempt, gen_calls,
                   exec_calls, prompts, catalog, logVars, response>>

\* a loop that runs one round more
LoopContinuesOneMore(n) == n <= MaxAttempts

\* for attempt in range(max_attempts): whether round n + 1 runs
LoopContinues(n) == n < MaxAttempts

\* the prompt a round hands to _generate_sql_with_prompt
PromptOfAttempt(prompt, n) == prompt

RagSuccess(sql, rows) ==
    [success |-> TRUE, message |-> "Query generated and executed successfully",
     sql_query |-> Some(sql), results |-> Some(rows), template_used |-> None]

\* continue, or the end of the loop body
NextRound ==
    /\ result' = result
    /\ Goto("generate")

\* One round of for attempt in range(max_attempts): generation and cleaning,
\* the validator, _execute_sql_safely (its rollback is guarded), learning, and
\* the return of a success.  An exception of learning is caught by the except
\* clause of the loop body, which continues.
RagAttempt ==
    /\ pc = "generate"
    /\ LoopContinues(attempt)
    /\ attempt' = attempt + 1
    /\ gen_calls' = gen_calls + 1
    /\ prompts' = prompts \cup {PromptOfAttempt(Get(rag_prompt), attempt)}
    /\ \E completion \in LlmCompletions :
         LET generated_sql == IF IsNone(completion) THEN <<>>
                              ELSE CleanGeneratedSql(Get(completion))
             safe == ValidateSqlSafety(generated_sql)
             sql == AddLimit(generated_sql, RagMaxResults)
         IN  IF generated_sql = <<>>
             THEN /\ NextRound
                  /\ UNCHANGED <<exec_calls, catalog, logVars>>
             ELSE /\ unsafe_verdicts' =
                        IF safe THEN unsafe_verdicts
                        ELSE unsafe_verdicts \cup {Rejected("rag", generated_sql)}
                  /\ IF ~MayExecute(safe)
                     THEN /\ NextRound
                          /\ UNCHANGED <<exec_calls, catalog, executed>>
                     ELSE /\ exec_calls' = exec_calls + 1
                          /\ \E outcome \in DbOutcomes(sql) :
                               /\ executed' = Some(Execution("rag", completion, generated_sql,
                                                             sql, safe, outcome))
                               /\ IF outcome = "error"
                                  THEN NextRound /\ UNCHANGED catalog
                                  ELSE \E env \in LearnEnvs :
                                       LET learned == LearnFromSuccessfulQuery(
                                                          catalog, generated_sql, env)
                                       IN  /\ catalog' = learned.catalog
                                           /\ IF learned.raised
                                              THEN NextRound
                                              ELSE /\ result' = Some(RagSuccess(generated_sql,
                                                                                RowsOf(outcome)))
                                                   /\ Goto("returned")
    /\ UNCHANGED <<requestVars, structured_params, templateVars, rag_prompt, prompt_builds,
                   response>>

\* a return after the loop that hands out the last executed candidate
RagExhaustedKeepsSql ==
    /\ pc = "generate"
    /\ ~LoopContinues(attempt)
    /\ result' = Some([Failure("Failed to generate valid SQL after 3 attempts") EXCEPT
                          !.sql_query = IF IsNone(executed) THEN None
                                        ELSE Some(Get(executed).candidate)])
    /\ Goto("returned")
    /\ UNCHANGED <<requestVars, structured_params, templateVars, ragVars, logVars, response>>

\* the return after the loop
RagExhausted ==
    /\ pc = "generate"
    /\ ~LoopContinues(attempt)
    /\ result' = Some(Failure("Failed to generate valid SQL after 3 attempts"))
    /\ Goto("returned")
    /\ UNCHANGED <<requestVars, structured_params, templateVars, ragVars, logVars, response>>

(***************************************************************************)
(* ask_ai_assistant after process_natural_language_query has returned.     *)
(* Neither that call nor explain_query_results lets an exception out.      *)
(***************************************************************************)
ExplanationText == "These providers match."

AskResponse(query_result, explanation) ==
    [success |-> query_result.success,
     answer |-> IF explanation # "" THEN explanation ELSE query_result.message,
     sql_query |-> query_result.sql_query,
     results |-> query_result.results,
     template_used |-> query_result.template_used]

Respond ==
    /\ pc = "returned"
    /\ LET query_result == Get(result)
           explanation == IF query_result.success /\ TruthyInt(query_result.results)
                          THEN ExplanationText ELSE ""
       IN  response' = Some(AskResponse(query_result, explanation))
    /\ Goto("done")
    /\ UNCHANGED <<requestVars, structured_params, templateVars, ragVars, logVars, result>>

Next ==
    \/ ParseQueryStep
    \/ TryTemplateMatching
    \/ ExtractConstants
    \/ ValidateAndExecuteTemplate
    \/ TemplateReturn
    \/ RagPrepare
    \/ RagAttempt
    \/ RagExhausted
    \/ Respond

Spec == Init /\ [][Next]_vars

(***************************************************************************)
(* The template store under two requests.                                  *)
(*                                                                         *)
(* Each of two requests has executed a generated SQL and calls             *)
(* learn_from_successful_query on its own session.  The calls await the    *)
(* duplicate search and the insert, so their steps interleave; with the    *)
(* sequential schedule the second request starts after the first is done.  *)
(* The table starts with the rows of seed_templates.                       *)
(***************************************************************************)
Requests == {1, 2}

\* a statement with a number before a string, and an ascending order
DischargesInState ==
    <<KW("SELECT"), ID("p.provider_name"), KW("FROM"), ID("providers"), ID("p"),
      KW("JOIN"), ID("provider_procedures"), ID("pp"),
      KW("WHERE"), ID("pp.total_discharges"), OP(">"), NUM("100"), KW("AND"),
      ID("p.provider_state"), OP("="), STR("NY"),
      KW("ORDER BY"), ID("pp.average_covered_charges"), KW("ASC"), KW("LIMIT"), NUM("5")>>

\* a statement that copies a quoted placeholder of the examples of the prompt:
\* the server takes it for a string
QuotedPlaceholder ==
    <<KW("SELECT"), ID("provider_name"), KW("FROM"), ID("providers"),
      KW("WHERE"), ID("provider_state"), OP("="), STR("NY"), KW("AND"),
      ID("provider_name"), KW("ILIKE"), QPH("1"), KW("LIMIT"), NUM("5")>>

\* what the two requests generated and executed
GeneratedSqls ==
    { SelectFrom("providers") \o Limit5,
      SelectFrom("providers") \o <<KW("LIMIT"), NUM("10")>>,
      DischargesInState,
      LimitedByName,
      QuotedPlaceholder }

\* the pipeline variables while no request of the pipeline is modelled
PipelineIdle ==
    /\ use_template_matching = FALSE
    /\ store_top = None
    /\ pc = "idle"
    /\ visited = {}
    /\ structured_params = DefaultStructuredQuery
    /\ template_match = None
    /\ InitCommon

\* search is what became of the duplicate search, outcome how the call ended
Learner(generated_sql) ==
    [pc |-> "search", generated_sql |-> generated_sql, search |-> "pending",
     outcome |-> "pending"]

InitStore ==
    /\ entry = "store"
    /\ PipelineIdle
    /\ NoValidator
    /\ NoSession
    /\ schedule \in {"sequential", "concurrent"}
    /\ learners \in [Requests -> {Learner(g) : g \in GeneratedSqls}]
    /\ template_catalog = SeedRows

MayStep(r) == schedule = "sequential" /\ r = 2 => learners[1].pc = "done"

LearnerDone(r, search, outcome) ==
    learners' = [learners EXCEPT ![r].pc = "done", ![r].search = search,
                                 ![r].outcome = outcome]

\* normalize_sql and the duplicate search.  A failed search rolls back and
\* returns no match; when that rollback raises, so does the call.
LearnSearch(r) ==
    /\ learners[r].pc = "search"
    /\ MayStep(r)
    /\ \E search \in {"ok", "fail"}, rollback \in RollbackOutcomes :
         LET normalized_sql == NormalizeSql(learners[r].generated_sql).sql
             existing_matches == IF search = "ok"
                                 THEN ExistingMatches(template_catalog, normalized_sql)
                                 ELSE {}
         IN  IF search = "fail" /\ rollback = "raise" THEN LearnerDone(r, search, "raised")
             ELSE IF existing_matches # {} THEN LearnerDone(r, search, "duplicate")
             ELSE learners' = [learners EXCEPT ![r].pc = "insert", ![r].search = search]
    /\ UNCHANGED <<entry, use_template_matching, store_top, pc, visited, structured_params,
                   templateVars, ragVars, logVars, result, response, schedule,
                   template_catalog, validatorVars, sessionVars>>

\* add_template_to_catalog: the INSERT and the commit, or the rollback and the
\* exception, which the handler of learn_from_successful_query answers with a
\* second rollback
LearnInsert(r) ==
    /\ learners[r].pc = "insert"
    /\ MayStep(r)
    /\ \E insert \in {"ok", "fail"}, rollback \in RollbackOutcomes :
         LET generated_sql == learners[r].generated_sql
             row == [template_id |-> Len(template_catalog) + 1,
                     canonical_sql |-> NormalizeSql(generated_sql).sql,
                     raw_sql |-> generated_sql, comment |-> "Auto-generated from query"]
         IN  IF insert = "ok"
             THEN /\ template_catalog' = Append(template_catalog, row)
                  /\ LearnerDone(r, learners[r].search, "added")
             ELSE /\ template_catalog' = template_catalog
                  /\ LearnerDone(r, learners[r].search,
                                 IF rollback = "raise" THEN "raised" ELSE "failed")
    /\ UNCHANGED <<entry, use_template_matching, store_top, pc, visited, structured_params,
                   templateVars, ragVars, logVars, result, response, schedule, validatorVars,
                   sessionVars>>

NextStore == \E r \in Requests : LearnSearch(r) \/ LearnInsert(r)

SpecStore == InitStore /\ [][NextStore]_vars

(***************************************************************************)
(* SQLSafetyValidator.validate_sql                                         *)
(*                                                                         *)
(* A run of SpecValidator is one call of validate_sql on one text.  Scores *)
(* are kept in tenths: 7 stands for 0.7.  An issue is its severity and its *)
(* category.  The texts of the model are far shorter than 5000 characters. *)
(***************************************************************************)
FN(v) == Tok("fn", v)          \* the name of a function call

\* the integers whose decimal text the model writes
ModelInts == {1, 2, 3, 4, 5, 6, 10, 100, 5000}

\* the row count a LIMIT operand asks for, None for anything but a number
LimitValue(t) ==
    IF t.k \in {"num", "str"} /\ \E n \in ModelInts : IntText(n) = t.v
    THEN Some(CHOOSE n \in ModelInts : IntText(n) = t.v)
    ELSE None

validator_forbidden_keywords ==
    {"insert", "update", "delete", "drop", "truncate", "alter",
     "create", "grant", "revoke", "copy", "execute", "call",
     "merge", "replace", "upsert", "pg_", "dblink"}

allowed_functions ==
    {"count", "sum", "avg", "min", "max", "stddev", "variance",
     "upper", "lower", "trim", "ltrim", "rtrim", "substring", "length",
     "concat", "coalesce", "nullif", "ilike", "like",
     "now", "current_date", "current_timestamp", "extract", "date_part",
     "age", "date_trunc",
     "abs", "ceil", "floor", "round", "power", "sqrt",
     "cast", "to_char", "to_date", "to_number"}

max_joins == 5
max_subqueries == 3
max_result_limit == MaxRows

SafetyThreshold == 7

\* the dialect classes the package sqlglot.dialects exports
sqlglot_dialects ==
    {"BigQuery", "ClickHouse", "Databricks", "DuckDB", "Hive", "MySQL", "Oracle",
     "Postgres", "Presto", "Redshift", "Snowflake", "Spark", "SQLite", "TSQL", "Trino"}

\* sqlglot.dialects.<name> raises AttributeError for a name that is not exported
DialectRaises(name) == name \notin sqlglot_dialects

\* the functions of the model that sqlglot parses to exp.Anonymous, whose
\* this is the name; for every other function this is the argument
\* expression, which has no lower()
AnonymousFunctions == {"my_func"}

Issue(severity, category) == [severity |-> severity, category |-> category]
Unsafe(category) == Issue("unsafe", category)
Warning(category) == Issue("warning", category)

IssuesIf(cond, issue) == IF cond THEN <<issue>> ELSE <<>>

NotComment(t) == t.k # "cmt" /\ t # NL

\* comments removed, whitespace collapsed, trailing semicolons stripped
CleanSql(sql) == RStripSemi(SelectSeq(sql, NotComment))

ValidateSyntax(sql) ==
    IssuesIf(FirstSemi(sql) # 0, Unsafe("syntax")) \o IssuesIf(sql = <<>>, Unsafe("syntax"))

ValidateStatementType(sql) == IssuesIf(ParseOne(sql) # "Select", Unsafe("statement_type"))

\* one issue for every forbidden keyword that stands in the text as a word
ValidateKeywords(sql) ==
    LET found == { LowerText(sql[i].v) : i \in 1..Len(sql) } \cap validator_forbidden_keywords
    IN  [n \in 1..Cardinality(found) |-> Unsafe("forbidden_keyword")]

\* the first statement, which is what parse_one returns
ParsedStatement(sql) ==
    IF FirstSemi(sql) = 0 THEN sql ELSE SubSeq(sql, 1, FirstSemi(sql) - 1)

FunctionsOf(sql) == { i \in 1..Len(sql) : sql[i].k = "fn" }

\* func.this.lower() raises for a function whose this is an expression
FunctionsRaise(sql) == \E i \in FunctionsOf(sql) : sql[i].v \notin AnonymousFunctions

ValidateFunctions(sql) ==
    LET bad == { i \in FunctionsOf(sql) : LowerText(sql[i].v) \notin allowed_functions }
    IN  [n \in 1..Cardinality(bad) |-> Warning("function")]

TablePositions(sql) ==
    { i \in 2..Len(sql) : sql[i - 1].k = "kw" /\ LowerText(sql[i - 1].v) \in {"from", "join"} }

ValidateTables(sql) ==
    LET bad == { i \in TablePositions(sql) : LowerText(sql[i].v) \notin allowed_tables }
    IN  [n \in 1..Cardinality(bad) |-> Unsafe("table_access")]

CountKeyword(sql, kw) ==
    Cardinality({ i \in 1..Len(sql) : sql[i].k = "kw" /\ LowerText(sql[i].v) = kw })

\* int(str(limit_clause.expression)); None where it raises ValueError
LimitNumber(t) == IF t.k = "num" THEN LimitValue(t) ELSE None

\* the statements of the model have no subquery
SubqueryCount(sql) == 0

ValidateComplexity(sql) ==
    LET limits == { i \in 1..(Len(sql) - 1) : LowerTok(sql[i]) = KW("limit") }
    IN  IssuesIf(CountKeyword(sql, "join") > max_joins, Warning("complexity"))
        \o IssuesIf(SubqueryCount(sql) > max_subqueries, Warning("complexity"))
        \o IF limits = {}
           THEN <<Warning("complexity")>>
           ELSE LET limit_value == LimitNumber(sql[(CHOOSE i \in limits : TRUE) + 1])
                IN  IssuesIf(~IsNone(limit_value) /\ Get(limit_value) > max_result_limit,
                             Warning("complexity"))

IsQuote(t) == t.k \in {"str", "qph", "pat"}

\* the patterns that can match a cleaned text of the model: a quote, or or
\* and, a quote; a semicolon before drop; union select
InjectionPatterns(sql) ==
    { p \in {"or", "and"} :
        \E i \in 2..(Len(sql) - 1) :
            IsQuote(sql[i - 1]) /\ LowerTok(sql[i]) = KW(p) /\ IsQuote(sql[i + 1]) }
    \cup { p \in {"drop"} : Contains(LowerSql(sql), <<SEMI, KW("drop")>>) }
    \cup { p \in {"union"} : Contains(LowerSql(sql), <<KW("union"), KW("select")>>) }

ValidateInjectionPatterns(sql) ==
    [n \in 1..Cardinality(InjectionPatterns(sql)) |-> Unsafe("injection")]

\* a star that is an expression of the select list
ValidateDataExposure(sql) ==
    LET stars == { i \in 2..Len(sql) :
                     sql[i] = OP("*") /\ (LowerTok(sql[i - 1]) = KW("select") \/ sql[i - 1] = OP(",")) }
    IN  [n \in 1..Cardinality(stars) |-> Warning("data_exposure")]

ExtractTableReferences(sql) == { LowerText(sql[i].v) : i \in TablePositions(sql) }

CalculateComplexity(sql) ==
    1 + 2 * CountKeyword(sql, "join") + 3 * SubqueryCount(sql) + CountKeyword(sql, "where")
      + Cardinality(FunctionsOf(sql)) + CountKeyword(sql, "order by")

CountSeverity(issues, severity) ==
    Cardinality({ i \in 1..Len(issues) : issues[i].severity = severity })

ComplexityPenalty(complexity) ==
    IF complexity > 20 THEN 2 ELSE IF complexity > 10 THEN 1 ELSE 0

CalculateSafetyScore(issues, complexity) ==
    LET base_score == 10 - 5 * CountSeverity(issues, "unsafe")
                         - CountSeverity(issues, "warning") - ComplexityPenalty(complexity)
    IN  IF base_score < 0 THEN 0 ELSE base_score

CreateUnsafeReport(issues) ==
    [is_safe |-> FALSE, overall_score |-> 0, issues |-> issues, complexity_score |-> 100,
     table_references |-> {}]

\* the issues of the detailed validations of a text that parsed
DetailedIssues(sql) ==
    LET parsed == ParsedStatement(sql)
    IN  ValidateStatementType(parsed) \o ValidateKeywords(sql) \o ValidateFunctions(parsed)
        \o ValidateTables(parsed) \o ValidateComplexity(parsed)
        \o ValidateInjectionPatterns(sql) \o ValidateDataExposure(parsed)

\* the report of validate_sql for a text
ValidateSqlReport(raw) ==
    LET sql == CleanSql(raw)
        syntax_issues == ValidateSyntax(sql)
    IN  \* the dialect lookup, the parse or a validation raised: except Exception
        IF \/ DialectRaises("PostgreSQL")
           \/ ParseOne(sql) = "error"
           \/ FunctionsRaise(ParsedStatement(sql))
        THEN CreateUnsafeReport(Append(syntax_issues, Unsafe("parsing")))
        ELSE LET issues == syntax_issues \o DetailedIssues(sql)
                 complexity_score == CalculateComplexity(ParsedStatement(sql))
                 safety_score == CalculateSafetyScore(issues, complexity_score)
             IN  [is_safe |-> safety_score >= SafetyThreshold
                                /\ CountSeverity(issues, "unsafe") = 0,
                  overall_score |-> safety_score, issues |-> issues,
                  complexity_score |-> complexity_score,
                  table_references |-> ExtractTableReferences(ParsedStatement(sql))]

\* the texts validate_sql is called with
JoinChain(n) ==
    [i \in 1..(2 * n) |-> IF i % 2 = 1 THEN KW("JOIN") ELSE ID("provider_procedures")]

ValidatorSelectLists ==
    { <<ID("provider_name")>>,
      <<OP("*")>>,
      <<OP("*"), OP(","), FN("my_func"), OP("("), ID("provider_name"), OP(")")>>,
      <<FN("COUNT"), OP("("), OP("*"), OP(")")>> }

ValidatorFroms ==
    { <<ID("providers")>>, <<ID("pg_user")>>,
      <<ID("providers")>> \o JoinChain(5), <<ID("providers")>> \o JoinChain(10) }

ValidatorWheres ==
    { <<>>,
      <<KW("WHERE"), ID("provider_state"), OP("="), STR("NY")>>,
      <<KW("WHERE"), ID("provider_name"), OP("="), STR("a"), KW("OR"), STR("1"),
        OP("="), STR("1")>> }

ValidatorLimits == { <<>>, Limit5, <<KW("LIMIT"), NUM("5000")>> }

ValidatorTails ==
    { <<>>, <<SEMI>>, <<CMT("-- cheapest first")>>, <<CMT("/* cheapest first */")>>,
      <<SEMI, KW("DROP"), KW("TABLE"), ID("providers")>> }

ValidatorInputs ==
    { <<KW("SELECT")>> \o sel \o <<KW("FROM")>> \o from \o where \o lim \o tail :
        sel \in ValidatorSelectLists, from \in ValidatorFroms, where \in ValidatorWheres,
        lim \in ValidatorLimits, tail \in ValidatorTails }

InitValidator ==
    /\ entry = "validator"
    /\ PipelineIdle
    /\ NoStore
    /\ NoSession
    /\ validated_sql \in { Some(sql) : sql \in ValidatorInputs }
    /\ report = None

ValidateSql ==
    /\ ~IsNone(validated_sql)
    /\ IsNone(report)
    /\ report' = Some(ValidateSqlReport(Get(validated_sql)))
    /\ UNCHANGED <<entry, use_template_matching, store_top, pc, visited, structured_params,
                   templateVars, ragVars, logVars, result, response, storeVars, validated_sql,
                   sessionVars>>

NextValidator == ValidateSql

SpecValidator == InitValidator /\ [][NextValidator]_vars

(***************************************************************************)
(* The database session of a request.                                      *)
(*                                                                         *)
(* A run of SpecSession follows the AsyncSession that get_db hands to one  *)
(* request from the binder on: the DRG resolver, the description lookup,   *)
(* the execution of the bound template, and after a failure of the         *)
(* template path the template search and the executor of the RAG path.     *)
(* The server answers every statement of a transaction in which a          *)
(* statement has failed with an error until the transaction is rolled      *)
(* back.  failed is that state of the transaction, unrolled tells that no  *)
(* rollback has been issued since the last failure, and statements lists   *)
(* the statements sent, each with the unrolled flag it was sent under.     *)
(***************************************************************************)
CleanSession == [failed |-> FALSE, unrolled |-> FALSE, statements |-> <<>>]

StatementOutcomes(s) == IF s.failed THEN {"fail"} ELSE {"row", "norow", "fail"}

\* session.execute(...) at a place of the code, with the answer of the server
SessionExecute(s, site, outcome) ==
    [failed |-> s.failed \/ outcome = "fail",
     unrolled |-> s.unrolled \/ outcome = "fail",
     statements |-> Append(s.statements, [site |-> site, unrolled |-> s.unrolled])]

\* session.rollback(), which can itself raise
SessionRollback(s, rollback) ==
    [s EXCEPT !.failed = IF rollback = "ok" THEN FALSE ELSE s.failed, !.unrolled = FALSE]

Resolved(s, code) == [session |-> s, code |-> code]

\* _fallback_trigram_search: one statement, None on any exception
FallbackTrigramSearch(s) ==
    { Resolved(SessionExecute(s, "trigram", o), IF o = "row" THEN Some("470") ELSE None) :
        o \in StatementOutcomes(s) }

\* find_matching_drg_code: what it can return and what it leaves of the session
FindMatchingDrgCode(s, phrase) ==
    IF phrase = "" THEN { Resolved(s, None) }
    ELSE \* get_embedding raised: the except clause goes to the trigram search
         FallbackTrigramSearch(s)
         \cup UNION { LET sent == SessionExecute(s, "vector", o)
                      IN  IF o = "row" THEN { Resolved(sent, Some("470")) }
                          ELSE IF o = "norow" THEN { Resolved(sent, None) }
                          ELSE FallbackTrigramSearch(sent) :
                      o \in StatementOutcomes(s) }

\* the placeholder of the matched row that needs the resolver, the phrase and
\* the DRG code of the Intent
BinderCases ==
    [kind : {"description", "code"}, phrase : {"", "hip"}, drg_code : {None, Some("470")}]

InitSession ==
    /\ entry = "session"
    /\ PipelineIdle
    /\ NoStore
    /\ NoValidator
    /\ db_session = Some(CleanSession)
    /\ \E c \in BinderCases :
         binder = Some([pc |-> "binding", kind |-> c.kind, phrase |-> c.phrase,
                        drg_code |-> c.drg_code, attempt |-> 0])

SessionStep(s, p) ==
    /\ db_session' = Some(s)
    /\ binder' = Some([Get(binder) EXCEPT !.pc = p])

SessionIdle ==
    UNCHANGED <<entry, use_template_matching, store_top, pc, visited, structured_params,
                templateVars, ragVars, logVars, result, response, storeVars, validatorVars>>

\* _extract_template_constants for a row with a DRG placeholder
SessionBind ==
    /\ ~IsNone(binder)
    /\ Get(binder).pc = "binding"
    /\ LET b == Get(binder)
           s == Get(db_session)
       IN  IF b.kind = "description"
           THEN \E r \in FindMatchingDrgCode(s, b.phrase) :
                    IF Truthy(r.code)
                    \* the description lookup: its except clause only logs
                    THEN \E o \in StatementOutcomes(r.session) :
                             SessionStep(SessionExecute(r.session, "description", o), "executing")
                    ELSE SessionStep(r.session, "executing")
           ELSE IF Truthy(b.drg_code) THEN SessionStep(s, "executing")
           ELSE \E r \in FindMatchingDrgCode(s, b.phrase) :
                    \* no code: the binder returns [] and the template path fails
                    SessionStep(r.session, IF Truthy(r.code) THEN "executing" ELSE "fallback")
    /\ SessionIdle

\* validate_and_execute_template and the except clauses above it
SessionExecuteTemplate ==
    /\ ~IsNone(binder)
    /\ Get(binder).pc = "executing"
    /\ \E o \in StatementOutcomes(Get(db_session)) :
       \E rollback1 \in RollbackOutcomes, rollback2 \in RollbackOutcomes :
         LET sent == SessionExecute(Get(db_session), "template", o)
             first == SessionRollback(sent, rollback1)
         IN  IF o = "row" THEN SessionStep(sent, "done")
             ELSE IF o = "norow" THEN SessionStep(sent, "fallback")
             ELSE IF rollback1 = "ok" THEN SessionStep(first, "fallback")
             \* the rollback raised: _try_structured_template_matching rolls back again
             ELSE SessionStep(SessionRollback(first, rollback2),
                              IF rollback2 = "ok" THEN "fallback" ELSE "done")
    /\ SessionIdle

\* search_similar_templates for the examples of the RAG prompt
SessionSearchTemplates ==
    /\ ~IsNone(binder)
    /\ Get(binder).pc = "fallback"
    /\ \E o \in StatementOutcomes(Get(db_session)), rollback \in RollbackOutcomes :
         LET sent == SessionExecute(Get(db_session), "search", o)
         IN  IF o # "fail" THEN SessionStep(sent, "generate")
             ELSE SessionStep(SessionRollback(sent, rollback),
                              IF rollback = "ok" THEN "generate" ELSE "done")
    /\ SessionIdle

\* _execute_sql_safely in a round of the RAG loop
SessionExecuteSqlSafely ==
    /\ ~IsNone(binder)
    /\ Get(binder).pc = "generate"
    /\ \E o \in StatementOutcomes(Get(db_session)), rollback \in RollbackOutcomes :
         LET sent == SessionExecute(Get(db_session), "executor", o)
             b == [Get(binder) EXCEPT !.attempt = @ + 1]
         IN  /\ db_session' = Some(IF o = "fail" THEN SessionRollback(sent, rollback) ELSE sent)
             /\ binder' = Some([b EXCEPT !.pc = IF o # "fail" \/ ~LoopContinues(b.attempt)
                                                THEN "done" ELSE "generate"])
    /\ SessionIdle

NextSession ==
    \/ SessionBind
    \/ SessionExecuteTemplate
    \/ SessionSearchTemplates
    \/ SessionExecuteSqlSafely

SpecSession == InitSession /\ [][NextSession]_vars

(***************************************************************************)
(* Properties                                                              *)
(***************************************************************************)
Executed(path) == ~IsNone(executed) /\ Get(executed).path = path

HasResult == ~IsNone(result)
HasResponse == ~IsNone(response)

\* C1: in the template path and in the RAG path alike, a candidate the safety
\* check rejects is never handed to session.execute: every executed text comes
\* from a candidate with a safe verdict, and no candidate with an unsafe
\* verdict has been executed.
C1_UnsafeVerdictSuppressesExecution ==
    ~IsNone(executed) =>
        /\ Get(executed).verdict
        /\ Rejected(Get(executed).path, Get(executed).candidate) \notin unsafe_verdicts

\* a request that met an unsafe verdict in the template path and another in
\* the RAG path, and was answered
C1_Witness ==
    /\ pc = "done"
    /\ \E r \in unsafe_verdicts : r.path = "template"
    /\ \E r \in unsafe_verdicts : r.path = "rag"

\* C2: every text the pipeline executes, bound template or RAG candidate,
\* reads only tables of the allow-list.
C2_ExecutedTablesAllowListed ==
    ~IsNone(executed) => TablesOf(Get(executed).sql) \subseteq allowed_tables

\* C3: a response of ask with success=false carries no sql_query and no rows,
\* whatever failed.
C3_FailureCarriesNoSql ==
    /\ (HasResult /\ ~Get(result).success) =>
           IsNone(Get(result).sql_query) /\ IsNone(Get(result).results)
    /\ (HasResponse /\ ~Get(response).success) =>
           IsNone(Get(response).sql_query) /\ IsNone(Get(response).results)

\* a failed response after three rounds in which a candidate was executed
C3_Witness ==
    /\ HasResponse
    /\ ~Get(response).success
    /\ Executed("rag")
    /\ attempt = MaxAttempts

\* a completion that holds more than one statement: text follows a semicolon
IsMultiStatement(raw) == FirstSemi(RStripSemi(SelectSeq(raw, NotFence))) # 0

\* the text of a completion up to its first semicolon, fences left out
FirstStatement(raw) ==
    LET text == SelectSeq(raw, NotFence)
    IN  IF \E i \in 1..Len(text) : text[i] = SEMI
        THEN SubSeq(text, 1, (CHOOSE i \in 1..Len(text) :
                                 text[i] = SEMI /\ \A j \in 1..(i - 1) : text[j] # SEMI) - 1)
        ELSE text

RagRaw == Get(Get(executed).raw)

\* C4, as stated: when the completion of the LLM holds more than one
\* statement, the candidate is rejected and no statement of it is executed.
C4_MultiStatementNeverExecuted ==
    Executed("rag") => ~IsMultiStatement(RagRaw)

\* C4, amended: only the text before the first semicolon of a completion
\* becomes the candidate; it is validated like any candidate and executed
\* when safe, and no text after a semicolon is ever executed.
C4_OnlyFirstStatementIsCandidate ==
    Executed("rag") =>
        /\ Get(executed).candidate = FirstStatement(RagRaw)
        /\ Get(executed).verdict
        /\ \A i \in 1..Len(Get(executed).sql) : Get(executed).sql[i] # SEMI

\* a request answered with success from the first statement of a completion
\* that went on with DROP TABLE
C4_Witness ==
    /\ Executed("rag")
    /\ IsMultiStatement(RagRaw)
    /\ HasResponse
    /\ Get(response).success

\* C5: with use_template_matching, whenever the store holds a row whose
\* confidence for the hint SQL of the request is at least 0.7, the request
\* reaches Binding once _try_structured_template_matching has run.
C5_ConfidentMatchReachesBinding ==
    ( /\ "templating" \in visited
      /\ pc # "templating"
      /\ ~IsNone(GenerateStructuredSql(structured_params))
      /\ ~IsNone(FindBestTemplateMatch(store_top)) )
    => "binding" \in visited

BoundTemplate == LowerSql(Get(template_match).raw_sql)

\* the matched row binds placeholder n to an Intent field that has no value
BindsMissingField(n) ==
    \/ Context(BoundTemplate, StateColumns, OP("="), n) /\ ~Truthy(structured_params.state)
    \/ Context(BoundTemplate, CityColumns, KW("ilike"), n) /\ ~Truthy(structured_params.city)
    \/ Context(BoundTemplate, ZipColumns, KW("like"), n) /\ ~Truthy(structured_params.zip_code)
    \/ Context(BoundTemplate, RatingColumns, OP(">="), n)
           /\ ~Truthy(structured_params.min_rating)

\* C7: when the matched row binds a placeholder to an Intent field that has
\* no value, the binder returns no constants and nothing is executed for the
\* row.
C7_MissingFieldNotBound ==
    ( /\ "binding" \in visited
      /\ pc # "binding"
      /\ \E n \in 1..PlaceholderCount(BoundTemplate) : BindsMissingField(n) )
    => template_constants = <<>> /\ "executing" \notin visited

\* C8: whenever validate_and_execute_template is called, the binder has
\* returned as many constants as the raw_sql of the matched row has
\* placeholders; a binder that returned none is followed by a failed
\* template result and the RAG fallback, never by an execution.
C8_ConstantsMatchPlaceholders ==
    /\ "executing" \in visited =>
           Len(template_constants) = PlaceholderCount(Get(template_match).raw_sql)
    /\ ("binding" \in visited /\ pc # "binding" /\ template_constants = <<>>) =>
           /\ "executing" \notin visited
           /\ ~Get(template_result).success
           /\ pc = "template_returned" \/ "fallback" \in visited

\* a row with three placeholders goes to execution with three constants
C8_Witness ==
    /\ pc = "executing"
    /\ PlaceholderCount(Get(template_match).raw_sql) = 3
    /\ Len(template_constants) = 3

\* C9: no text the template path executes holds a placeholder.
C9_NoPlaceholderExecuted ==
    Executed("template") => ~HasPlaceholder(Get(executed).sql)

\* C10, as stated: at most MAX_ATTEMPTS generation calls and executions, and
\* every generation call is handed a prompt built for it.
C10_FreshPromptEachAttempt ==
    /\ gen_calls <= MaxAttempts
    /\ exec_calls <= MaxAttempts
    /\ gen_calls <= prompt_builds

RagBounded ==
    /\ attempt <= MaxAttempts
    /\ gen_calls <= MaxAttempts
    /\ exec_calls <= gen_calls
    /\ prompt_builds <= 1
    /\ \A prompt \in prompts : rag_prompt = Some(prompt)
    /\ Executed("rag") => Get(executed).verdict
    /\ pc = "generate" => ENABLED (RagAttempt \/ RagExhausted)
    /\ ("generate" \in visited /\ HasResult /\ ~Get(result).success) => attempt = MaxAttempts

RagRound ==
    pc = "generate" =>
        /\ pc' \in {"generate", "returned"}
        /\ LoopContinues(attempt) => attempt' = attempt + 1
        /\ pc' = "returned" => attempt' = MaxAttempts \/ Get(result').success
        /\ ~LoopContinues(attempt) => pc' = "returned" /\ ~Get(result').success

\* C10, amended: the RAG loop ends after at most MAX_ATTEMPTS = 3 rounds for
\* every behaviour of the LLM and the database.  Each round makes one
\* generation call with the one prompt built before the loop and at most one
\* execution, of a candidate the validator passed; a round either returns a
\* success or uses up an attempt, and after the third the loop returns
\* success=false.
C10_RagLoopBounded == []RagBounded /\ [][RagRound]_vars

\* three rounds, each with an execution, and then the failure
C10_Witness ==
    /\ pc = "returned"
    /\ gen_calls = MaxAttempts
    /\ exec_calls = MaxAttempts
    /\ ~Get(result).success

\* the text has a LIMIT clause
HasLimitClause(sql) == \E i \in 1..Len(sql) : LowerTok(sql[i]) = KW("limit")

\* C11: whenever a RAG candidate has no LIMIT clause, the text handed to
\* session.execute is the candidate with LIMIT max_results appended.
C11_LimitInjected ==
    (Executed("rag") /\ ~HasLimitClause(Get(executed).candidate)) =>
        Get(executed).sql =
            Get(executed).candidate \o <<KW("LIMIT"), NUM(IntText(RagMaxResults))>>

\* C12: every text the pipeline executes, bound template or RAG candidate,
\* has a LIMIT clause whose value is at most MAX_ROWS.
C12_ExecutedLimitAtMostMaxRows ==
    ~IsNone(executed) =>
        LET sql == Get(executed).sql
        IN  /\ HasLimitClause(sql)
            /\ \A i \in 1..Len(sql) :
                   LowerTok(sql[i]) = KW("limit") =>
                       /\ i < Len(sql)
                       /\ ~IsNone(LimitValue(sql[i + 1]))
                       /\ Get(LimitValue(sql[i + 1])) <= MaxRows

\* C15: once a RAG candidate has been executed without error the request
\* returns success=true with that SQL and its rows, whatever becomes of
\* learning, and makes no further generation or execution.
C15_LearningFailureKeepsSuccess ==
    (Executed("rag") /\ Get(executed).outcome # "error") =>
        /\ pc \in {"returned", "done"}
        /\ Get(result).success
        /\ Get(result).sql_query = Some(Get(executed).candidate)
        /\ ~IsNone(Get(result).results)

\* the rows learning has added to the table whose canonical SQL is that of
\* the SQL request r generated
LearnedRows(r) ==
    { i \in (Len(SeedRows) + 1)..Len(template_catalog) :
        template_catalog[i].canonical_sql = NormalizeSql(learners[r].generated_sql).sql }

\* C13: when the pipeline runs twice in sequence on the same question, with
\* the same generated SQL, learning adds at most one row for it: the second
\* call finds the row of the first and inserts nothing.
C13_SecondRunInsertsNothing ==
    (schedule = "sequential" /\ learners[1].generated_sql = learners[2].generated_sql) =>
        Cardinality(LearnedRows(1)) <= 1

\* C14: for two concurrent requests whose generated SQL has the same
\* canonical SQL, every interleaving of their duplicate searches and inserts
\* adds at most one row.
C14_ConcurrentWritersInsertOnce ==
    ( /\ schedule = "concurrent"
      /\ NormalizeSql(learners[1].generated_sql).sql = NormalizeSql(learners[2].generated_sql).sql )
    => Cardinality(LearnedRows(1)) <= 1

\* normalize_sql maps the text to itself
IsFixedPoint(sql) == NormalizeSql(sql).sql = sql

\* C16: normalize_sql is idempotent on every SQL the requests generated, and
\* the canonical_sql of every row of template_catalog, seeded or learned, is
\* a fixed point of normalize_sql.
C16_CanonicalSqlIsFixedPoint ==
    /\ \A r \in Requests : IsFixedPoint(NormalizeSql(learners[r].generated_sql).sql)
    /\ \A i \in 1..Len(template_catalog) : IsFixedPoint(template_catalog[i].canonical_sql)

\* map_parameters has replaced the placeholders of the matched row and the
\* result has been executed
MappedAndExecuted ==
    /\ Executed("template")
    /\ ~IsNone(MapFrom(Get(template_match).raw_sql, template_constants, 1))

LikeKeywords == {KW("ILIKE"), KW("LIKE")}

\* C18: in the SQL map_parameters emits for a matched row, the constant at
\* every placeholder that is the right operand of ILIKE or LIKE in raw_sql is
\* wrapped in wildcards, and no other position holds a wildcard pattern.
C18_LikeOperandsWrapped ==
    MappedAndExecuted =>
        LET sql == Get(executed).candidate
        IN  \A i \in 2..Len(sql) : (sql[i - 1] \in LikeKeywords) <=> (sql[i].k = "pat")

\* C19: in the SQL map_parameters emits for a matched row, the bound limit
\* and the bound min_rating are bare numbers and the bound DRG code is a
\* quoted string.
C19_NumbersBareCodesQuoted ==
    MappedAndExecuted =>
        LET sql == Get(executed).candidate
        IN  /\ \A i \in 2..Len(sql) : sql[i - 1] = KW("LIMIT") => sql[i].k = "num"
            /\ \A i \in 3..Len(sql) :
                   (sql[i - 1] = OP(">=") /\ sql[i - 2].v \in RatingColumns) => sql[i].k = "num"
            /\ \A i \in 3..Len(sql) :
                   (sql[i - 1] = OP("=") /\ sql[i - 2] = ID("d.drg_code")) => sql[i].k = "str"

\* the text _extract_and_replace_constants gets from normalize_sql: the
\* regenerated statement, or the lower-cased text after a parse error
LiteralText(sql) == IF ParseOne(sql) = "error" THEN LowerSql(sql) ELSE Regenerate(sql)

IsStringAt(sql, i) == sql[i].k \in {"str", "qph"}
IsNumberAt(sql, i) == sql[i].k = "num"
LiteralsOf(sql) == { i \in 1..Len(sql) : IsStringAt(sql, i) \/ IsNumberAt(sql, i) }

\* the k of a placeholder $k
PlaceholderNumber(t) == CHOOSE n \in ModelInts : IntText(n) = t.v

\* what stands between the quotes of a string, or the digits of a number
LiteralValue(t) == IF t.k = "qph" THEN DollarText(t.v) ELSE t.v

\* the constant of the list is the literal its placeholder replaced
ConstantsFollowPlaceholders(sql) ==
    LET r == ExtractAndReplaceConstants(LiteralText(sql))
    IN  /\ Len(r.sql) = Len(LiteralText(sql))
        /\ Len(r.constants) = Cardinality(LiteralsOf(LiteralText(sql)))
        /\ \A i \in LiteralsOf(LiteralText(sql)) :
               /\ IsPlaceholder(r.sql[i])
               /\ PlaceholderNumber(r.sql[i]) \in 1..Len(r.constants)
               /\ r.constants[PlaceholderNumber(r.sql[i])] = LiteralValue(LiteralText(sql)[i])

\* request r has normalized the SQL it generated
HasNormalized(r) == learners[r].pc # "search"

\* C20 as stated: normalize_sql numbers the placeholders in left-to-right
\* order of the literals, strings and numbers alike, and
\* extracted_constants[k-1] is the literal that $k replaced.
C20_NumberedLeftToRight ==
    \A r \in Requests : HasNormalized(r) =>
        LET text == LiteralText(learners[r].generated_sql)
            out == ExtractAndReplaceConstants(text).sql
        IN  /\ ConstantsFollowPlaceholders(learners[r].generated_sql)
            /\ \A i, j \in LiteralsOf(text) :
                   i < j => PlaceholderNumber(out[i]) < PlaceholderNumber(out[j])

\* C20, amended: normalize_sql numbers the string literals from $1 in
\* left-to-right order and then the numeric literals, also left to right, so
\* that every string has a smaller number than every numeric literal, and
\* extracted_constants[k-1] is the literal that $k replaced.
C20_StringsThenNumbers ==
    \A r \in Requests : HasNormalized(r) =>
        LET text == LiteralText(learners[r].generated_sql)
            out == ExtractAndReplaceConstants(text).sql
        IN  /\ ConstantsFollowPlaceholders(learners[r].generated_sql)
            /\ \A i, j \in LiteralsOf(text) :
                   /\ (i < j /\ IsStringAt(text, i) = IsStringAt(text, j)) =>
                          PlaceholderNumber(out[i]) < PlaceholderNumber(out[j])
                   /\ (IsStringAt(text, i) /\ IsNumberAt(text, j)) =>
                          PlaceholderNumber(out[i]) < PlaceholderNumber(out[j])

\* a request has normalized a statement where a number stands before a string
C20_Witness ==
    \E r \in Requests :
        /\ HasNormalized(r)
        /\ LET text == LiteralText(learners[r].generated_sql)
           IN  \E i, j \in LiteralsOf(text) :
                   i < j /\ IsNumberAt(text, i) /\ IsStringAt(text, j)

\* validate_sql has returned its report
HasReport == ~IsNone(report)

\* the issues the rules of the validator raise for the text under validation
RuleIssues ==
    ValidateSyntax(CleanSql(Get(validated_sql))) \o DetailedIssues(CleanSql(Get(validated_sql)))

\* the text under validation is a statement the parser accepts
IsParsedQuery == ParseOne(CleanSql(Get(validated_sql))) # "error"

\* what the warnings and the complexity of the text subtract from the score
Subtracted ==
    CountSeverity(RuleIssues, "warning")
        + ComplexityPenalty(CalculateComplexity(ParsedStatement(CleanSql(Get(validated_sql)))))

\* C17: is_safe holds iff the report has no unsafe issue and its score is at
\* least 0.7; the score is 1.0 less 0.5 per unsafe issue, 0.1 per warning and
\* the complexity penalty, floored at 0; so a parsed query on which no rule
\* raises an unsafe issue is accepted exactly when its warnings and its
\* complexity penalty subtract at most 0.3.
C17_AcceptedIffScoreAtLeastThreshold ==
    HasReport =>
        LET r == Get(report)
        IN  /\ r.is_safe <=>
                   (CountSeverity(r.issues, "unsafe") = 0 /\ r.overall_score >= SafetyThreshold)
            /\ r.overall_score = CalculateSafetyScore(r.issues, r.complexity_score)
            /\ (IsParsedQuery /\ CountSeverity(RuleIssues, "unsafe") = 0) =>
                   (r.is_safe <=> Subtracted <= 10 - SafetyThreshold)

\* the text under validation holds an inline comment or a block comment
HasComment(sql) == \E i \in 1..Len(sql) : sql[i].k = "cmt"

\* C21: validate_sql reports every SQL that holds an inline -- comment or a
\* block comment as unsafe: is_safe is false and the report has an unsafe
\* injection issue.
C21_CommentsReportedAsInjection ==
    (HasReport /\ HasComment(Get(validated_sql))) =>
        /\ ~Get(report).is_safe
        /\ \E i \in 1..Len(Get(report).issues) : Get(report).issues[i] = Unsafe("injection")

\* the LLM call failed, gave no function call or no JSON, or named a
\* query_type that QueryType does not have
IsDegradedAnswer(answer) == IsNone(answer) \/ Get(answer).query_type \notin QueryTypes

\* the StructuredQuery carries a degraded mark
MarkedDegraded(q) == "degraded" \in DOMAIN q /\ q.degraded

\* parse_query has returned to process_natural_language_query
ParseReturned == entry = "ask" /\ pc # "start"

HasIntent == pc \notin {"start", "idle"}

\* the operands of the LIMIT clauses of a text
LimitOperands(sql) == { sql[i + 1] : i \in { j \in 1..(Len(sql) - 1) : LowerTok(sql[j]) = KW("limit") } }

\* C23: every Intent parse_query returns has a limit in 1..MAX_ROWS, 10 when
\* the LLM gives none, and no other limit reaches the binder or the LIMIT of
\* the SQL emitted for a matched template.
C23_IntentLimitWithinBounds ==
    /\ HasIntent =>
           /\ ~IsNone(structured_params.limit)
           /\ Get(structured_params.limit) \in 1..MaxRows
    /\ Executed("template") =>
           \A t \in LimitOperands(Get(executed).candidate) :
               /\ ~IsNone(LimitValue(t))
               /\ Get(LimitValue(t)) \in 1..MaxRows

BinderReturned == "binding" \in visited /\ pc # "binding"

FailedForGood ==
    /\ Executed("rag")
    /\ Get(executed).outcome = "error"
    /\ DbOutcomes(Get(executed).sql) = {"error"}

\* C26: within one request, a candidate whose execution failed with an error
\* that is not transient is not executed again in a later attempt of the RAG
\* loop.
C26_FailedCandidateNotExecutedAgain ==
    [][(FailedForGood /\ exec_calls' = exec_calls + 1) =>
           Get(executed').candidate # Get(executed).candidate]_vars

\* C27: on the session of a request, after a statement has failed a rollback
\* is issued before the next statement is sent: no statement of the DRG
\* resolver, the binder, the template execution, the template search or the
\* executor is sent while a failure is not yet rolled back.
C27_RollbackBeforeNextStatement ==
    ~IsNone(db_session) =>
        \A i \in 1..Len(Get(db_session).statements) : ~Get(db_session).statements[i].unrolled

\* the latest execution was one of the RAG loop and gave no error, so that the
\* loop has called learn_from_successful_query with its SQL
LearningInvoked(e) ==
    /\ ~IsNone(e)
    /\ Get(e).path = "rag"
    /\ Get(e).outcome # "error"

\* a round of the RAG loop that executes its candidate
RagExecutes == pc = "generate" /\ exec_calls' = exec_calls + 1

\* C28: learn_from_successful_query is invoked at most once in a request, only
\* by the RAG loop and only with a SQL that passed the safety check and was
\* executed without error; template_catalog gets a row only in such a round,
\* and then the request is answered with a success.
C28_LearningOncePerRequest ==
    [][/\ (RagExecutes /\ LearningInvoked(executed')) =>
              (Get(executed').verdict /\ ~LearningInvoked(executed))
       /\ catalog' # catalog =>
              /\ RagExecutes /\ LearningInvoked(executed')
              /\ pc' = "returned" /\ Get(result').success]_vars

\* C29: a call of learn_from_successful_query that inserts a row is one whose
\* duplicate search ran to completion (and found nothing at the threshold):
\* after a duplicate search that failed, nothing is inserted.
C29_InsertOnlyAfterCompletedSearch ==
    \A r \in Requests : learners[r].outcome = "added" => learners[r].search = "ok"

\* the numbers of the placeholders of a text
PlaceholderNumbers(sql) ==
    { PlaceholderNumber(sql[i]) : i \in { j \in 1..Len(sql) : IsPlaceholder(sql[j]) } }

\* C30: in the output of normalize_sql no placeholder that stands for a
\* literal has the number of a placeholder the input already had, and the
\* number of distinct placeholders of canonical_sql is the number of distinct
\* placeholders of the input plus len(extracted_constants).
C30_PlaceholderNumbersDenoteOneThing ==
    \A r \in Requests : HasNormalized(r) =>
        LET input == learners[r].generated_sql
            out == NormalizeSql(input)
        IN  /\ PlaceholderNumbers(input) \cap (1..Len(out.constants)) = {}
            /\ Cardinality(PlaceholderNumbers(out.sql)) =
                   Cardinality(PlaceholderNumbers(input)) + Len(out.constants)

====
